---- MODULE Spec2Model ----
(***************************************************************************)
(* Model of the zapmenu authentication layer: the MFA passcode lifecycle   *)
(* (createAdminVerification / verifyAdminPasscode over the                 *)
(* admin_verifications table), the POST /auth/admin/request-verification  *)
(* and POST /auth/admin/verify routes that wrap it, the guest login        *)
(* (findOrCreateGuest), the JWT token helpers, the authentication          *)
(* middleware and the hotel-scoping middleware.                            *)
(*                                                                         *)
(* Time is counted in minutes.  Every await on the repository in the       *)
(* source is one step of the calling request, so that requests interleave  *)
(* exactly where the Node event loop lets them interleave.                 *)
(***************************************************************************)
EXTENDS Integers, Sequences, FiniteSets, TLC

VARIABLES
    now,                 \* the clock (new Date()), in minutes
    admins,              \* rows of table admins
    verifications,       \* rows of table admin_verifications
    nextVerificationId,  \* AUTOINCREMENT counter of admin_verifications
    proc,                \* per request of POST /admin/verify: position, arguments, locals, result
    lastCreate,          \* arguments and result of the last createAdminVerification call
    consumed,            \* history: the records that successful verifications were granted on
    guests,              \* rows of table guests
    jwt,                 \* a token minted, the token presented and what verifyToken made of it
    req,                 \* the request in the authentication middleware
    orders,              \* rows of table orders
    nextOrderId,         \* AUTOINCREMENT counter of orders
    nextGuestId,         \* AUTOINCREMENT counter of guests
    login,               \* per call of findOrCreateGuest: position, arguments, locals, result
    loggedIn,            \* history: the email and guestId of each successful findOrCreateGuest
    authz                \* the request in the hotel-scoping middleware

vars == <<now, admins, verifications, nextVerificationId, proc, lastCreate, consumed,
          guests, jwt, req, orders, nextOrderId, nextGuestId, login, loggedIn, authz>>

(* What only the guest login and the hotel scoping write *)
scopeVars == <<orders, nextOrderId, nextGuestId, login, loggedIn, authz>>

(* The state of the guest login, the guests table apart *)
loginVars == <<nextGuestId, login, loggedIn>>

(* What the MFA engine leaves alone *)
guardVars == <<guests, jwt, req, scopeVars>>

(* What the token service and the authentication middleware leave alone *)
mfaVars == <<nextVerificationId, proc, lastCreate, consumed, scopeVars>>

(* The state of the MFA engine *)
engineVars == <<verifications, nextVerificationId, proc, lastCreate, consumed>>

----------------------------------------------------------------------------
(* Bounds of the model *)

MaxVerifications == 2

(* The orders and the guests that can be created in a run *)
MaxOrders == 2
MaxGuests == 2

(* The requests of POST /admin/verify that can be in progress at once *)
Procs == {"r1", "r2"}

(* The instants the clock is read at: before, at and after the expiry of a
   passcode created at 0, and at and after 24 hours past that expiry *)
ClockPoints == {0, 5, 10, 24 * 60 + 10, 24 * 60 + 15}

(* The instants around the expiry alone *)
ExpiryPoints == {0, 5, 10}

None == [none |-> TRUE]

----------------------------------------------------------------------------
(* The repository's contents and the inputs *)

AdminRows ==
    { [id |-> 1, name |-> "Ann", email |-> "a@hotel.com", phone |-> "111", hotelId |-> 7],
      [id |-> 2, name |-> "Bob", email |-> "b@hotel.com", phone |-> "222", hotelId |-> 8] }

GuestRows ==
    { [id |-> 1, name |-> "Alice", email |-> "g@x.com"],
      [id |-> 2, name |-> "Gil", email |-> "h@x.com"] }

AdminIdInputs == {1, 2, 3}
EmailInputs == {"", "a@hotel.com", "b@hotel.com", "x@hotel.com"}
PasscodeInputs == {"", "100000", "999998"}

(* Values the random source is sampled at, around both ends of the range *)
RandomSamples == {99999, 100000, 999998, 999999, 1000000}

(* crypto.randomInt(min, max): min <= n < max *)
RandomInt(min, max) == {n \in RandomSamples : min <= n /\ n < max}

generatePasscode == {ToString(n) : n \in RandomInt(100000, 999999)}

DefaultExpirationMinutes == 10

CleanupAgeMinutes == 24 * 60

----------------------------------------------------------------------------
(* Token Service: jwt.helper.ts over the jsonwebtoken library *)

JWT_SECRET == "your-secret-key-change-in-production"

(* "7d", in minutes *)
JWT_EXPIRES_IN == 7 * 24 * 60

Issuer == "zapmenu"

(* The HS256 signature of the claims under a key: determined by both, and
   different for different keys or claims *)
HS256(key, claims) == <<key, claims>>

(* jwt.sign(payload, secret, {expiresIn, issuer, subject}) at time t *)
JwtSign(payload, secret, expiresIn, issuer, subject, t) ==
    LET claims == payload @@ [iat |-> t, exp |-> t + expiresIn, iss |-> issuer, sub |-> subject]
    IN  [claims |-> claims, sig |-> HS256(secret, claims)]

generateAdminToken(payload, t) ==
    JwtSign(payload, JWT_SECRET, JWT_EXPIRES_IN, Issuer, "admin:" \o ToString(payload.adminId), t)

generateGuestToken(payload, t) ==
    JwtSign(payload, JWT_SECRET, JWT_EXPIRES_IN, Issuer, "guest:" \o ToString(payload.guestId), t)

IsJwt(token) == DOMAIN token = {"claims", "sig"}

(* jwt.verify(token, secret, {issuer}) at time t: the error it throws, or "ok" *)
JwtVerifyError(token, secret, issuer, t) ==
    IF ~IsJwt(token) THEN "JsonWebTokenError: jwt malformed"
    ELSE IF token.sig # HS256(secret, token.claims) THEN "JsonWebTokenError: invalid signature"
    ELSE IF t >= token.claims.exp THEN "TokenExpiredError"
    ELSE IF token.claims.iss # issuer THEN "JsonWebTokenError: jwt issuer invalid"
    ELSE "ok"

(* verifyToken without the issuer option: whatever issuer the token names *)
verifyToken_AnyIssuer(token, t) ==
    IF ~IsJwt(token) THEN None
    ELSE IF JwtVerifyError(token, JWT_SECRET, token.claims.iss, t) = "ok" THEN token.claims
    ELSE None

(* verifyToken: the decoded claims, or null; every error is caught *)
verifyToken(token, t) ==
    IF JwtVerifyError(token, JWT_SECRET, Issuer, t) = "ok" THEN token.claims ELSE None

(* The empty string, where a token is expected *)
Empty == [empty |-> TRUE]

(* An Authorization header: absent (None), or a string, kept as whether it
   starts with "Bearer " and what follows (a token, or Empty for nothing) *)
extractTokenFromHeader(authHeader) ==
    IF authHeader = None \/ (~authHeader.bearer /\ authHeader.rest = Empty) THEN None
    ELSE authHeader.rest

(* !token: null and the empty string *)
Falsy(token) == token = None \/ token = Empty

----------------------------------------------------------------------------
(* MFA Engine: auth.helper.ts *)

AdminByEmail(e) == {a \in admins : a.email = e}
AdminById(i) == {a \in admins : a.id = i}

(* The where clause with the expiry compared by >= *)
MatchesVerification_AtExpiry(r, adminId, code, t) ==
    /\ r.adminId = adminId
    /\ r.passcode = code
    /\ r.used = FALSE
    /\ r.expiresAt >= t

(* The where clause without the owner *)
MatchesVerification_AnyAdmin(r, adminId, code, t) ==
    /\ r.passcode = code
    /\ r.used = FALSE
    /\ r.expiresAt > t

(* The where clause of the findFirst of verifyAdminPasscode, at time t *)
MatchesVerification(r, adminId, code, t) ==
    /\ r.adminId = adminId
    /\ r.passcode = code
    /\ r.used = FALSE
    /\ r.expiresAt > t

(* orderBy createdAt desc, first row: rows of equal createdAt come in an
   order the store chooses *)
FindFirstVerification(adminId, code, t) ==
    LET found == {r \in verifications : MatchesVerification(r, adminId, code, t)}
    IN  {r \in found : \A o \in found : o.createdAt <= r.createdAt}

(* The where clause of the deleteMany without the owner *)
IsStaleVerification_AnyAdmin(r, adminId, t) ==
    /\ r.used = TRUE
    /\ r.expiresAt < t - CleanupAgeMinutes

(* The where clause of the deleteMany with a cutoff of 48 hours *)
IsStaleVerification_TwoDays(r, adminId, t) ==
    /\ r.adminId = adminId
    /\ r.used = TRUE
    /\ r.expiresAt < t - 2 * CleanupAgeMinutes

(* The where clause of the deleteMany of verifyAdminPasscode, at time t *)
IsStaleVerification(r, adminId, t) ==
    /\ r.adminId = adminId
    /\ r.used = TRUE
    /\ r.expiresAt < t - CleanupAgeMinutes

(* An update that writes nothing *)
MarkUsed_Forgotten(rows, id) == rows

(* prisma.adminVerification.update({where: {id}, data: {used: true}}) *)
MarkUsed(rows, id) ==
    {IF r.id = id THEN [r EXCEPT !.used = TRUE] ELSE r : r \in rows}

NewVerification(adminId, code, expirationMinutes) ==
    [id |-> nextVerificationId, adminId |-> adminId, passcode |-> code,
     expiresAt |-> now + expirationMinutes, used |-> FALSE, createdAt |-> now]

IdleProc ==
    [pc |-> "idle", email |-> "", passcode |-> "", admin |-> None, verification |-> None,
     startId |-> 0, thrown |-> "", result |-> None, response |-> None]

(* The catch block of verifyAdminPasscode and what POST /admin/verify makes of it *)
FailedToVerify == [success |-> FALSE, message |-> "Failed to verify passcode"]

(* The response of POST /admin/verify with a token that names the admin's id
   as its hotel *)
VerifyResponse_HotelMixedUp(result, email, t) ==
    IF ~result.success
    THEN [status |-> 401, body |-> [error |-> result.message]]
    ELSE [status |-> 200,
          body |-> [message |-> "Authentication successful",
                    token |-> generateAdminToken(
                        [adminId |-> result.adminId, hotelId |-> result.adminId,
                         email |-> email, type |-> "admin"], t),
                    adminId |-> result.adminId, hotelId |-> result.hotelId]]

(* POST /admin/verify after verifyAdminPasscode returned: lines 405-422 *)
VerifyResponse(result, email, t) ==
    IF ~result.success
    THEN [status |-> 401, body |-> [error |-> result.message]]
    ELSE [status |-> 200,
          body |-> [message |-> "Authentication successful",
                    token |-> generateAdminToken(
                        [adminId |-> result.adminId, hotelId |-> result.hotelId,
                         email |-> email, type |-> "admin"], t),
                    adminId |-> result.adminId, hotelId |-> result.hotelId]]

(* verifyAdminPasscode returns: the route answers in the same turn *)
Return(p, result) ==
    proc' = [proc EXCEPT ![p].pc = "done", ![p].result = result,
                         ![p].response = VerifyResponse(result, proc[p].email, now)]

----------------------------------------------------------------------------
(* The clock *)

Tick(points) ==
    /\ \E t \in points : t > now /\ now' = t
    /\ UNCHANGED <<guardVars, admins, verifications, nextVerificationId, proc, lastCreate, consumed>>

----------------------------------------------------------------------------
(* createAdminVerification that supersedes the admin's earlier passcodes *)
CreateAdminVerification_Supersede(adminId, expirationMinutes) ==
    /\ AdminById(adminId) # {}
    /\ nextVerificationId <= MaxVerifications
    /\ \E code \in generatePasscode :
          LET verification == NewVerification(adminId, code, expirationMinutes)
          IN  /\ verifications' =
                    {IF r.adminId = adminId THEN [r EXCEPT !.used = TRUE] ELSE r :
                        r \in verifications} \cup {verification}
              /\ lastCreate' = [adminId |-> adminId,
                                result |-> [success |-> TRUE, passcode |-> code,
                                            expiresAt |-> verification.expiresAt,
                                            message |-> "MFA passcode generated successfully"]]
    /\ nextVerificationId' = nextVerificationId + 1
    /\ UNCHANGED <<guardVars, now, admins, proc, consumed>>

(* createAdminVerification without the lookup of the admin *)
CreateAdminVerification_NoLookup(adminId, expirationMinutes) ==
    /\ nextVerificationId <= MaxVerifications
    /\ \E code \in generatePasscode :
          LET verification == NewVerification(adminId, code, expirationMinutes)
          IN  /\ verifications' = verifications \cup {verification}
              /\ lastCreate' = [adminId |-> adminId,
                                result |-> [success |-> TRUE, passcode |-> code,
                                            expiresAt |-> verification.expiresAt,
                                            message |-> "MFA passcode generated successfully"]]
    /\ nextVerificationId' = nextVerificationId + 1
    /\ UNCHANGED <<guardVars, now, admins, proc, consumed>>

(* createAdminVerification(adminId, expirationMinutes = 10) *)
CreateAdminVerification(adminId, expirationMinutes) ==
    IF AdminById(adminId) = {}
    THEN /\ lastCreate' = [adminId |-> adminId,
                           result |-> [success |-> FALSE, message |-> "Admin not found"]]
         /\ UNCHANGED <<guardVars, now, admins, verifications, nextVerificationId, proc, consumed>>
    ELSE /\ nextVerificationId <= MaxVerifications
         /\ \E code \in generatePasscode :
              LET verification == NewVerification(adminId, code, expirationMinutes)
              IN  /\ verifications' = verifications \cup {verification}
                  /\ lastCreate' = [adminId |-> adminId,
                                    result |-> [success |-> TRUE, passcode |-> code,
                                                expiresAt |-> verification.expiresAt,
                                                message |-> "MFA passcode generated successfully"]]
         /\ nextVerificationId' = nextVerificationId + 1
         /\ UNCHANGED <<guardVars, now, admins, proc, consumed>>

(* lines 93-99: a repository call of createAdminVerification throws *)
CreateThrows(adminId) ==
    /\ lastCreate' = [adminId |-> adminId,
                      result |-> [success |-> FALSE,
                                  message |-> "Failed to create verification code"]]
    /\ UNCHANGED <<guardVars, now, admins, verifications, nextVerificationId, proc, consumed>>

----------------------------------------------------------------------------
(* POST /auth/admin/request-verification {email}: validateAdminEmail, then
   createAdminVerification with the default expiry *)
RequestVerification(email) ==
    IF email = ""
    THEN /\ lastCreate' = [email |-> email, adminId |-> 0, result |-> None,
                           response |-> [status |-> 400,
                                         body |-> [error |-> "Email is required"]]]
         /\ UNCHANGED <<guardVars, now, admins, verifications, nextVerificationId, proc,
                        consumed>>
    ELSE IF AdminByEmail(email) = {}
    THEN /\ lastCreate' = [email |-> email, adminId |-> 0, result |-> None,
                           response |-> [status |-> 404,
                                         body |-> [error |-> "Admin not found with this email"]]]
         /\ UNCHANGED <<guardVars, now, admins, verifications, nextVerificationId, proc,
                        consumed>>
    ELSE /\ nextVerificationId <= MaxVerifications
         /\ \E a \in AdminByEmail(email), code \in generatePasscode :
              LET verification == NewVerification(a.id, code, DefaultExpirationMinutes)
              IN  /\ verifications' = verifications \cup {verification}
                  /\ lastCreate' =
                        [email |-> email, adminId |-> a.id,
                         result |-> [success |-> TRUE, passcode |-> code,
                                     expiresAt |-> verification.expiresAt,
                                     message |-> "MFA passcode generated successfully"],
                         response |-> [status |-> 200,
                                       body |-> [message |-> "Verification code sent",
                                                 passcode |-> code,
                                                 expiresAt |-> verification.expiresAt]]]
         /\ nextVerificationId' = nextVerificationId + 1
         /\ UNCHANGED <<guardVars, now, admins, proc, consumed>>

----------------------------------------------------------------------------
(* POST /admin/verify {email, passcode}, calling verifyAdminPasscode *)

(* lines 396-400: the body's fields are checked before the helper is called *)
VerifyRequest(p, email, passcode) ==
    /\ proc[p].pc = "idle"
    /\ IF email = "" \/ passcode = ""
       THEN proc' = [proc EXCEPT ![p] = [IdleProc EXCEPT
                        !.pc = "done", !.email = email, !.passcode = passcode,
                        !.response = [status |-> 400,
                                      body |-> [error |-> "Email and passcode are required"]]]]
       ELSE proc' = [proc EXCEPT ![p] = [IdleProc EXCEPT
                        !.pc = "findAdmin", !.email = email, !.passcode = passcode,
                        !.startId = nextVerificationId]]
    /\ UNCHANGED <<guardVars, now, admins, verifications, nextVerificationId, lastCreate, consumed>>

(* lines 111-121: prisma.admin.findUnique({where: {email}}) *)
FindAdmin(p) ==
    /\ proc[p].pc = "findAdmin"
    /\ IF AdminByEmail(proc[p].email) = {}
       THEN Return(p, [success |-> FALSE, message |-> "Admin not found"])
       ELSE \E a \in AdminByEmail(proc[p].email) :
                proc' = [proc EXCEPT ![p].pc = "findVerification", ![p].admin = a]
    /\ UNCHANGED <<guardVars, now, admins, verifications, nextVerificationId, lastCreate, consumed>>

(* The lookup of a verifyAdminPasscode that burns the admin's passcodes on a
   wrong guess *)
FindVerification_Burning(p) ==
    /\ proc[p].pc = "findVerification"
    /\ LET first == FindFirstVerification(proc[p].admin.id, proc[p].passcode, now)
       IN  IF first = {}
           THEN /\ Return(p, [success |-> FALSE, message |-> "Invalid or expired passcode"])
                /\ verifications' =
                      {IF r.adminId = proc[p].admin.id THEN [r EXCEPT !.used = TRUE] ELSE r :
                          r \in verifications}
           ELSE /\ \E v \in first :
                      proc' = [proc EXCEPT ![p].pc = "update", ![p].verification = v]
                /\ UNCHANGED verifications
    /\ UNCHANGED <<guardVars, now, admins, nextVerificationId, lastCreate, consumed>>

(* lines 124-143: prisma.adminVerification.findFirst *)
FindVerification(p) ==
    /\ proc[p].pc = "findVerification"
    /\ LET first == FindFirstVerification(proc[p].admin.id, proc[p].passcode, now)
       IN  IF first = {}
           THEN Return(p, [success |-> FALSE, message |-> "Invalid or expired passcode"])
           ELSE \E v \in first :
                    proc' = [proc EXCEPT ![p].pc = "update", ![p].verification = v]
    /\ UNCHANGED <<guardVars, now, admins, verifications, nextVerificationId, lastCreate, consumed>>

(* lines 146-149: prisma.adminVerification.update({where: {id}}), which
   throws when the row is gone *)
Update(p) ==
    /\ proc[p].pc = "update"
    /\ IF \E r \in verifications : r.id = proc[p].verification.id
       THEN /\ verifications' = MarkUsed(verifications, proc[p].verification.id)
            /\ proc' = [proc EXCEPT ![p].pc = "cleanup"]
       ELSE /\ Return(p, FailedToVerify)
            /\ UNCHANGED verifications
    /\ UNCHANGED <<guardVars, now, admins, nextVerificationId, lastCreate, consumed>>

(* lines 152-167: prisma.adminVerification.deleteMany, then the result *)
Cleanup(p) ==
    /\ proc[p].pc = "cleanup"
    /\ verifications' = {r \in verifications : ~IsStaleVerification(r, proc[p].admin.id, now)}
    /\ Return(p, [success |-> TRUE, adminId |-> proc[p].admin.id,
                  hotelId |-> proc[p].admin.hotelId,
                  message |-> "Passcode verified successfully"])
    /\ consumed' = consumed \cup
                        {[id |-> proc[p].verification.id, adminId |-> proc[p].admin.id,
                          passcode |-> proc[p].passcode, upTo |-> nextVerificationId]}
    /\ UNCHANGED <<guardVars, now, admins, nextVerificationId, lastCreate>>

(* lines 168-174: a repository call of verifyAdminPasscode throws *)
RepositoryThrows(p) ==
    /\ proc[p].pc \in {"findAdmin", "findVerification", "update", "cleanup"}
    /\ proc' = [proc EXCEPT ![p].pc = "done", ![p].thrown = proc[p].pc,
                            ![p].result = FailedToVerify,
                            ![p].response = VerifyResponse(FailedToVerify, proc[p].email, now)]
    /\ UNCHANGED <<guardVars, now, admins, verifications, nextVerificationId, lastCreate, consumed>>

(* The request is over; its slot takes the next request *)
Finish(p) ==
    /\ proc[p].pc = "done"
    /\ proc' = [proc EXCEPT ![p] = IdleProc]
    /\ UNCHANGED <<guardVars, now, admins, verifications, nextVerificationId, lastCreate, consumed>>

----------------------------------------------------------------------------
(* Token Service in use: a payload is minted, a token is presented (the
   minted one or a variant of it) and verifyToken is called on it *)

AdminPayloads ==
    [adminId : {1, 2}, hotelId : {7, 8}, email : {"a@hotel.com", "b@hotel.com"}, type : {"admin"}]

GuestPayloads == [guestId : {1, 2}, email : {"g@x.com", "h@x.com"}, type : {"guest"}]

(* The instants of the token's life: minting, a day on, the expiry, past it *)
TokenPoints == {0, 24 * 60, 7 * 24 * 60, 7 * 24 * 60 + 5}

Mint(payload, t) ==
    IF payload.type = "admin" THEN generateAdminToken(payload, t)
    ELSE generateGuestToken(payload, t)

SubjectOf(payload) ==
    IF payload.type = "admin" THEN "admin:" \o ToString(payload.adminId)
    ELSE "guest:" \o ToString(payload.guestId)

(* What a caller can present in place of the token minted for a payload at t *)
Presented(kind, payload, t) ==
    LET token == Mint(payload, t)
    IN  CASE kind = "minted" -> token
          [] kind = "tampered email" ->
                [token EXCEPT !.claims = [token.claims EXCEPT !.email = "evil@x.com"]]
          [] kind = "tampered exp" ->
                [token EXCEPT !.claims = [token.claims EXCEPT !.exp = @ + 24 * 60]]
          [] kind = "tampered signature" ->
                [token EXCEPT !.sig = HS256(JWT_SECRET, [token.claims EXCEPT !.iat = @ + 1])]
          [] kind = "other secret" ->
                JwtSign(payload, "attacker-key", JWT_EXPIRES_IN, Issuer, SubjectOf(payload), t)
          [] kind = "other issuer" ->
                JwtSign(payload, JWT_SECRET, JWT_EXPIRES_IN, "other-service", SubjectOf(payload), t)
          [] kind = "malformed" -> [malformed |-> TRUE]

PresentedKinds ==
    {"minted", "tampered email", "tampered exp", "tampered signature", "other secret",
     "other issuer", "malformed"}

TokenMint(payload) ==
    /\ jwt = None
    /\ jwt' = [pc |-> "minted", payload |-> payload, mintedAt |-> now,
               token |-> Mint(payload, now)]
    /\ UNCHANGED <<now, admins, verifications, guests, req, mfaVars>>

TokenPresent(kind) ==
    /\ jwt # None /\ jwt.pc = "minted"
    /\ jwt' = [pc |-> "presented", payload |-> jwt.payload, mintedAt |-> jwt.mintedAt,
               token |-> jwt.token, kind |-> kind,
               presented |-> Presented(kind, jwt.payload, jwt.mintedAt)]
    /\ UNCHANGED <<now, admins, verifications, guests, req, mfaVars>>

TokenVerify ==
    /\ jwt # None /\ jwt.pc = "presented"
    /\ jwt' = [pc |-> "verified", payload |-> jwt.payload, mintedAt |-> jwt.mintedAt,
               token |-> jwt.token, kind |-> jwt.kind, presented |-> jwt.presented,
               verifiedAt |-> now, decoded |-> verifyToken(jwt.presented, now)]
    /\ UNCHANGED <<now, admins, verifications, guests, req, mfaVars>>

TokenDrop ==
    /\ jwt # None /\ jwt.pc = "verified"
    /\ jwt' = None
    /\ UNCHANGED <<now, admins, verifications, guests, req, mfaVars>>

TokenTick ==
    /\ \E t \in TokenPoints : t > now /\ now' = t
    /\ UNCHANGED <<admins, verifications, guests, jwt, req, mfaVars>>

----------------------------------------------------------------------------
(* Access Guard: authenticateAdmin, authenticateGuest, authenticateUser *)

(* getAdminById with a row remembered from the login *)
getAdminById_Remembered(adminId) ==
    IF \E a \in AdminRows : a.id = adminId
    THEN CHOOSE a \in AdminRows : a.id = adminId
    ELSE None

(* getAdminById: the row, or null *)
getAdminById(adminId) ==
    IF \E a \in admins : a.id = adminId
    THEN CHOOSE a \in admins : a.id = adminId
    ELSE None

(* getGuestById: the row, or null *)
getGuestById(guestId) ==
    IF \E g \in guests : g.id = guestId
    THEN CHOOSE g \in guests : g.id = guestId
    ELSE None

Guards == {"authenticateAdmin", "authenticateGuest", "authenticateUser"}

(* Tokens of earlier logins at time 0, and what else a caller can send *)
GuardTokens ==
    { Mint([adminId |-> 1, hotelId |-> 7, email |-> "a@hotel.com", type |-> "admin"], 0),
      Mint([guestId |-> 1, email |-> "g@x.com", type |-> "guest"], 0),
      Presented("other secret",
                [adminId |-> 1, hotelId |-> 7, email |-> "a@hotel.com", type |-> "admin"], 0),
      JwtSign([staffId |-> 1, type |-> "staff"], JWT_SECRET, JWT_EXPIRES_IN, Issuer, "staff:1", 0) }

GuardHeaders ==
    {None, [bearer |-> TRUE, rest |-> Empty], [bearer |-> FALSE, rest |-> Empty]}
    \cup [bearer : BOOLEAN, rest : GuardTokens]

(* A request as the guard leaves it; hotelId 0 is req.hotelId not set *)
Rejected(guard, header, status, error) ==
    [guard |-> guard, header |-> header, pc |-> "done", payload |-> None, admin |-> None,
     guest |-> None, hotelId |-> 0, status |-> status, error |-> error, next |-> FALSE,
     threw |-> FALSE]

(* The middleware with an authenticateAdmin that takes guest tokens too *)
Authenticate_AnyPrincipal(guard, header) ==
    /\ req = None
    /\ LET token == extractTokenFromHeader(header)
           payload == IF Falsy(token) THEN None ELSE verifyToken(token, now)
       IN  req' =
             IF Falsy(token) THEN Rejected(guard, header, 401, "Authentication required")
             ELSE IF guard = "authenticateAdmin"
                     /\ (payload = None \/ payload.type \notin {"admin", "guest"})
             THEN Rejected(guard, header, 401, "Invalid token or not an admin token")
             ELSE IF guard = "authenticateGuest" /\ (payload = None \/ payload.type # "guest")
             THEN Rejected(guard, header, 401, "Invalid token or not a guest token")
             ELSE IF payload = None
             THEN Rejected(guard, header, 401, "Invalid token")
             ELSE IF payload.type \notin {"admin", "guest"}
             THEN Rejected(guard, header, 401, "Invalid token type")
             ELSE [Rejected(guard, header, 0, "") EXCEPT !.pc = "lookup", !.payload = payload]
    /\ UNCHANGED <<now, admins, verifications, guests, jwt, mfaVars>>

(* The middleware up to its await: lines 560-578, 611-629, 659-675/689 *)
Authenticate(guard, header) ==
    /\ req = None
    /\ LET token == extractTokenFromHeader(header)
           payload == IF Falsy(token) THEN None ELSE verifyToken(token, now)
       IN  req' =
             IF Falsy(token) THEN Rejected(guard, header, 401, "Authentication required")
             ELSE IF guard = "authenticateAdmin" /\ (payload = None \/ payload.type # "admin")
             THEN Rejected(guard, header, 401, "Invalid token or not an admin token")
             ELSE IF guard = "authenticateGuest" /\ (payload = None \/ payload.type # "guest")
             THEN Rejected(guard, header, 401, "Invalid token or not a guest token")
             ELSE IF payload = None
             THEN Rejected(guard, header, 401, "Invalid token")
             ELSE IF payload.type \notin {"admin", "guest"}
             THEN Rejected(guard, header, 401, "Invalid token type")
             ELSE [Rejected(guard, header, 0, "") EXCEPT !.pc = "lookup", !.payload = payload]
    /\ UNCHANGED <<now, admins, verifications, guests, jwt, mfaVars>>

(* After getAdminById / getGuestById: lines 579-593, 630-642, 676-704 *)
AuthenticateLookup ==
    /\ req # None /\ req.pc = "lookup"
    /\ IF req.payload.type = "admin"
       THEN LET admin == getAdminById(req.payload.adminId)
            IN  req' =
                  IF admin = None
                  THEN [req EXCEPT !.pc = "done", !.status = 401, !.error = "Admin not found"]
                  ELSE [req EXCEPT !.pc = "done", !.next = TRUE,
                                   !.admin = [id |-> admin.id, name |-> admin.name,
                                              phone |-> admin.phone] @@ req.payload,
                                   !.hotelId = req.payload.hotelId]
       ELSE LET guest == getGuestById(req.payload.guestId)
            IN  req' =
                  IF guest = None
                  THEN [req EXCEPT !.pc = "done", !.status = 401, !.error = "Guest not found"]
                  ELSE [req EXCEPT !.pc = "done", !.next = TRUE,
                                   !.guest = [id |-> guest.id, name |-> guest.name] @@ req.payload]
    /\ UNCHANGED <<now, admins, verifications, guests, jwt, mfaVars>>

(* What the catch blocks of getAdminById and getGuestById return *)
getByIdCatch == None

(* The repository call of the lookup throws: lines 272-275, 286-289, and the
   guard goes on with what the catch block returned *)
AuthenticateLookupThrows ==
    /\ req # None /\ req.pc = "lookup"
    /\ LET principal == getByIdCatch
       IN  req' =
             IF principal = None
             THEN [req EXCEPT !.pc = "done", !.threw = TRUE, !.status = 401,
                              !.error = IF req.payload.type = "admin"
                                        THEN "Admin not found" ELSE "Guest not found"]
             ELSE IF req.payload.type = "admin"
             THEN [req EXCEPT !.pc = "done", !.threw = TRUE, !.next = TRUE,
                              !.admin = principal, !.hotelId = req.payload.hotelId]
             ELSE [req EXCEPT !.pc = "done", !.threw = TRUE, !.next = TRUE,
                              !.guest = principal]
    /\ UNCHANGED <<now, admins, verifications, guests, jwt, mfaVars>>

GuardFinish ==
    /\ req # None /\ req.pc = "done"
    /\ req' = None
    /\ UNCHANGED <<now, admins, verifications, guests, jwt, mfaVars>>

(* Rows are deleted out of band; admin_verifications cascades: line 907 *)
DeleteAdmin(adminId) ==
    /\ \E a \in admins : a.id = adminId
    /\ admins' = {a \in admins : a.id # adminId}
    /\ verifications' = {r \in verifications : r.adminId # adminId}
    /\ UNCHANGED <<now, guests, jwt, req, mfaVars>>

(* A row of admins is updated out of band: name, phone and email (unique) *)
ChangeAdmin(adminId, name, phone, email) ==
    /\ \E a \in admins : a.id = adminId
    /\ ~ \E a \in admins : a.id # adminId /\ a.email = email
    /\ admins' = {IF a.id = adminId
                  THEN [a EXCEPT !.name = name, !.phone = phone, !.email = email]
                  ELSE a : a \in admins}
    /\ UNCHANGED <<now, verifications, guests, jwt, req, mfaVars>>

(* An admin is moved to another hotel out of band *)
MoveAdmin(adminId, hotelId) ==
    /\ \E a \in admins : a.id = adminId
    /\ admins' = {IF a.id = adminId THEN [a EXCEPT !.hotelId = hotelId] ELSE a : a \in admins}
    /\ UNCHANGED <<now, verifications, guests, jwt, req, mfaVars>>

(* A row of guests is updated out of band: name and email (unique) *)
ChangeGuest(guestId, name, email) ==
    /\ \E g \in guests : g.id = guestId
    /\ ~ \E g \in guests : g.id # guestId /\ g.email = email
    /\ guests' = {IF g.id = guestId THEN [g EXCEPT !.name = name, !.email = email]
                  ELSE g : g \in guests}
    /\ UNCHANGED <<now, admins, verifications, jwt, req, mfaVars>>

(* orders.guestId is ON DELETE RESTRICT: line 953 *)
DeleteGuest(guestId) ==
    /\ \E g \in guests : g.id = guestId
    /\ ~ \E o \in orders : o.guestId = guestId
    /\ guests' = {g \in guests : g.id # guestId}
    /\ UNCHANGED <<now, admins, verifications, jwt, req, mfaVars>>

----------------------------------------------------------------------------
(* Guest login: findOrCreateGuest and POST /auth/guest/login *)

IdleLogin ==
    [pc |-> "idle", route |-> FALSE, email |-> "", name |-> "", guest |-> None,
     created |-> FALSE, startId |-> 0, thrown |-> "", result |-> None, response |-> None]

GuestByEmail(e) == {g \in guests : g.email = e}

GuestEmailInputs == {"", "g@x.com", "n@x.com", "m@x.com"}
GuestNameInputs == {"", "Alice", "Nia"}

(* The catch block of findOrCreateGuest *)
FailedToFindOrCreate == [success |-> FALSE, message |-> "Failed to find or create guest"]

(* POST /guest/login after findOrCreateGuest returned: lines 470-485 *)
LoginResponse(result, email, t) ==
    IF ~result.success
    THEN [status |-> 500, body |-> [error |-> result.message]]
    ELSE [status |-> 200,
          body |-> [message |-> "Authentication successful",
                    token |-> generateGuestToken(
                        [guestId |-> result.guestId, email |-> email, type |-> "guest"], t),
                    guestId |-> result.guestId]]

(* findOrCreateGuest returns; when the route called it, it answers in the same turn *)
LoginReturn(p, result) ==
    /\ login' = [login EXCEPT
                    ![p].pc = "done", ![p].result = result,
                    ![p].response = IF login[p].route
                                    THEN LoginResponse(result, login[p].email, now)
                                    ELSE None]
    /\ loggedIn' = IF result.success
                   THEN loggedIn \cup {[email |-> login[p].email, guestId |-> result.guestId]}
                   ELSE loggedIn

(* POST /guest/login {email, name}: lines 461-468 *)
LoginRequest(p, email, name) ==
    /\ login[p].pc = "idle"
    /\ IF email = "" \/ name = ""
       THEN login' = [login EXCEPT ![p] = [IdleLogin EXCEPT
                        !.pc = "done", !.route = TRUE, !.email = email, !.name = name,
                        !.response = [status |-> 400,
                                      body |-> [error |-> "Email and name are required"]]]]
       ELSE login' = [login EXCEPT ![p] = [IdleLogin EXCEPT
                        !.pc = "findGuest", !.route = TRUE, !.email = email, !.name = name,
                        !.startId = nextGuestId]]
    /\ UNCHANGED <<now, admins, guests, jwt, req, engineVars, orders, nextOrderId,
                   nextGuestId, loggedIn, authz>>

(* findOrCreateGuest(email, name) called directly *)
FindOrCreateGuestCall(p, email, name) ==
    /\ login[p].pc = "idle"
    /\ login' = [login EXCEPT ![p] = [IdleLogin EXCEPT
                    !.pc = "findGuest", !.email = email, !.name = name,
                    !.startId = nextGuestId]]
    /\ UNCHANGED <<now, admins, guests, jwt, req, engineVars, orders, nextOrderId,
                   nextGuestId, loggedIn, authz>>

(* lines 187-189, 205-206: prisma.guest.findUnique({where: {email}}) *)
FindGuest(p) ==
    /\ login[p].pc = "findGuest"
    /\ IF GuestByEmail(login[p].email) = {}
       THEN login' = [login EXCEPT ![p].pc = "createGuest"] /\ UNCHANGED loggedIn
       ELSE \E g \in GuestByEmail(login[p].email) :
              IF login[p].name # "" /\ g.name # login[p].name
              THEN login' = [login EXCEPT ![p].pc = "updateGuest", ![p].guest = g]
                   /\ UNCHANGED loggedIn
              ELSE LoginReturn(p, [success |-> TRUE, guestId |-> g.id,
                                   message |-> "Guest found"])
    /\ UNCHANGED <<now, admins, guests, jwt, req, engineVars, orders, nextOrderId,
                   nextGuestId, authz>>

(* lines 192-203: prisma.guest.create, which throws when the email, unique
   in guests, has been taken in the meantime *)
CreateGuest(p) ==
    /\ login[p].pc = "createGuest"
    /\ IF GuestByEmail(login[p].email) # {}
       THEN /\ LoginReturn(p, FailedToFindOrCreate)
            /\ UNCHANGED <<guests, nextGuestId>>
       ELSE /\ nextGuestId <= Cardinality(GuestRows) + MaxGuests
            /\ guests' = guests \cup {[id |-> nextGuestId, name |-> login[p].name,
                                       email |-> login[p].email]}
            /\ nextGuestId' = nextGuestId + 1
            /\ LoginReturn(p,
                           [success |-> TRUE, guestId |-> nextGuestId,
                            message |-> "Guest created successfully"])
    /\ UNCHANGED <<now, admins, jwt, req, engineVars, orders, nextOrderId, authz>>

(* An update that keeps the stored name *)
RenameGuest_Kept(rows, id, name) == rows

(* prisma.guest.update({where: {id}, data: {name}}) *)
RenameGuest(rows, id, name) ==
    {IF g.id = id THEN [g EXCEPT !.name = name] ELSE g : g \in rows}

(* lines 208-219: prisma.guest.update, which throws when the row is gone *)
UpdateGuest(p) ==
    /\ login[p].pc = "updateGuest"
    /\ IF \E g \in guests : g.id = login[p].guest.id
       THEN /\ guests' = RenameGuest(guests, login[p].guest.id, login[p].name)
            /\ LoginReturn(p, [success |-> TRUE, guestId |-> login[p].guest.id,
                               message |-> "Guest found"])
       ELSE /\ LoginReturn(p, FailedToFindOrCreate)
            /\ UNCHANGED guests
    /\ UNCHANGED <<now, admins, jwt, req, engineVars, orders, nextOrderId, nextGuestId, authz>>

(* lines 220-226: a repository call of findOrCreateGuest throws *)
LoginThrows(p) ==
    /\ login[p].pc \in {"findGuest", "createGuest", "updateGuest"}
    /\ LET failing == [login EXCEPT ![p].thrown = login[p].pc]
       IN  login' = [failing EXCEPT
                        ![p].pc = "done", ![p].result = FailedToFindOrCreate,
                        ![p].response = IF login[p].route
                                        THEN LoginResponse(FailedToFindOrCreate,
                                                           login[p].email, now)
                                        ELSE None]
    /\ UNCHANGED <<now, admins, guests, jwt, req, engineVars, orders, nextOrderId,
                   nextGuestId, loggedIn, authz>>

(* The call is over; its slot takes the next one *)
LoginFinish(p) ==
    /\ login[p].pc = "done"
    /\ login' = [login EXCEPT ![p] = IdleLogin]
    /\ UNCHANGED <<now, admins, guests, jwt, req, engineVars, orders, nextOrderId,
                   nextGuestId, loggedIn, authz>>

----------------------------------------------------------------------------
(* Hotel scoping: authorizeAdminHotel, authorizeGuestHotel *)

(* A string is kept as the sequence of its characters; undefined is None *)
Str(chars) == [text |-> chars]

(* The truthiness of a request value: undefined and "" are falsy *)
Truthy(raw) == raw # None /\ raw.text # <<>>

NaN == [nan |-> TRUE]
Num(n) == [nan |-> FALSE, value |-> n]

IsDigit(c) == c \in {"0", "1", "2", "3", "4", "5", "6", "7", "8", "9"}

DigitValue(c) ==
    CASE c = "0" -> 0 [] c = "1" -> 1 [] c = "2" -> 2 [] c = "3" -> 3 [] c = "4" -> 4
      [] c = "5" -> 5 [] c = "6" -> 6 [] c = "7" -> 7 [] c = "8" -> 8 [] c = "9" -> 9

RECURSIVE SkipWhitespace(_)
SkipWhitespace(s) ==
    IF s # <<>> /\ Head(s) = " " THEN SkipWhitespace(Tail(s)) ELSE s

RECURSIVE DigitPrefix(_)
DigitPrefix(s) ==
    IF s = <<>> \/ ~IsDigit(Head(s)) THEN <<>> ELSE <<Head(s)>> \o DigitPrefix(Tail(s))

RECURSIVE DecimalValue(_)
DecimalValue(digits) ==
    IF digits = <<>> THEN 0
    ELSE 10 * DecimalValue(SubSeq(digits, 1, Len(digits) - 1)) + DigitValue(digits[Len(digits)])

(* parseInt(raw, 10): leading whitespace and a sign are skipped, the digits
   that follow are the value and what follows them is ignored; NaN when no
   digit is there *)
parseInt(raw) ==
    LET s == SkipWhitespace(raw.text)
        negative == s # <<>> /\ Head(s) = "-"
        unsigned == IF s # <<>> /\ Head(s) \in {"-", "+"} THEN Tail(s) ELSE s
        digits == DigitPrefix(unsigned)
    IN  IF digits = <<>> THEN NaN
        ELSE Num(IF negative THEN 0 - DecimalValue(digits) ELSE DecimalValue(digits))

(* The truthiness of a number or null: null, NaN and 0 are falsy *)
NumberTruthy(n) == n # None /\ ~n.nan /\ n.value # 0

(* lines 764-770, 808-814: params, else body, else query, else null *)
RequestHotelId(params, body, query) ==
    IF Truthy(params) THEN parseInt(params)
    ELSE IF Truthy(body) THEN parseInt(body)
    ELSE IF Truthy(query) THEN parseInt(query)
    ELSE None

(* What the catch blocks of the access predicates return *)
verifyHotelAccessCatch_Granted == TRUE

verifyHotelAccessCatch == FALSE

(* verifyAdminHotelAccess by the hotel the admin had when the token was minted *)
verifyAdminHotelAccess_OfToken(adminId, hotelId) ==
    \E a \in AdminRows : a.id = adminId /\ a.hotelId = hotelId

(* verifyAdminHotelAccess: admin?.hotelId === hotelId *)
verifyAdminHotelAccess(adminId, hotelId) ==
    \E a \in admins : a.id = adminId /\ a.hotelId = hotelId

(* verifyGuestHotelAccess that asks for an order at any hotel *)
verifyGuestHotelAccess_AnyHotel(guestId, hotelId) ==
    \E o \in orders : o.guestId = guestId

(* verifyGuestHotelAccess: the guest has an order at the hotel *)
verifyGuestHotelAccess(guestId, hotelId) ==
    \E o \in orders : o.guestId = guestId /\ o.hotelId = hotelId

Scopers == {"authorizeAdminHotel", "authorizeGuestHotel"}

(* req.admin and req.guest as the authentication middleware attaches them *)
AttachedAdmins ==
    { [id |-> a.id, name |-> a.name, phone |-> a.phone, adminId |-> a.id,
       hotelId |-> a.hotelId, email |-> a.email, type |-> "admin"] : a \in {r \in AdminRows : r.id = 1} }

AttachedGuests ==
    { [id |-> g.id, name |-> g.name, guestId |-> g.id, email |-> g.email, type |-> "guest"] :
        g \in {r \in GuestRows : r.id = 1} }

(* Hotel ids as they arrive in the route, the body and the query *)
RawHotelIds ==
    {None, Str(<<>>), Str(<<"7">>), Str(<<"8">>), Str(<<"0">>), Str(<<"a", "b", "c">>),
     Str(<<"8", "x">>)}

(* The request as the middleware answers it without calling next() *)
Denied(guard, admin, guest, params, body, query, status, error) ==
    [guard |-> guard, admin |-> admin, guest |-> guest, params |-> params, body |-> body,
     query |-> query, pc |-> "done", target |-> 0, hotelId |-> 0, status |-> status,
     error |-> error, next |-> FALSE, threw |-> FALSE]

(* The middleware up to its await: lines 758-775, 802-821 *)
Authorize(guard, admin, guest, params, body, query) ==
    /\ authz = None
    /\ LET hotelId == RequestHotelId(params, body, query)
           denied(status, error) ==
               Denied(guard, admin, guest, params, body, query, status, error)
       IN  authz' =
             IF guard = "authorizeAdminHotel"
             THEN IF admin = None THEN denied(401, "Authentication required")
                  ELSE [denied(0, "") EXCEPT
                            !.pc = "access",
                            !.target = IF NumberTruthy(hotelId) THEN hotelId.value
                                       ELSE admin.hotelId]
             ELSE IF guest = None THEN denied(401, "Authentication required")
                  ELSE IF ~NumberTruthy(hotelId) THEN denied(400, "Hotel ID required")
                  ELSE [denied(0, "") EXCEPT !.pc = "access", !.target = hotelId.value]
    /\ UNCHANGED <<now, admins, guests, jwt, req, engineVars, orders, nextOrderId,
                   loginVars>>

(* After the access predicate: lines 775-783, 821-828 *)
Access(hasAccess) ==
    authz' = IF hasAccess
             THEN [authz EXCEPT !.pc = "done", !.hotelId = authz.target, !.next = TRUE]
             ELSE [authz EXCEPT !.pc = "done", !.status = 403,
                                !.error = "Access denied to this hotel"]

AuthorizeAccess ==
    /\ authz # None /\ authz.pc = "access"
    /\ Access(IF authz.guard = "authorizeAdminHotel"
              THEN verifyAdminHotelAccess(authz.admin.adminId, authz.target)
              ELSE verifyGuestHotelAccess(authz.guest.guestId, authz.target))
    /\ UNCHANGED <<now, admins, guests, jwt, req, engineVars, orders, nextOrderId,
                   loginVars>>

(* The repository call of the access predicate throws: lines 307-310, 331-334 *)
AuthorizeAccessThrows ==
    /\ authz # None /\ authz.pc = "access"
    /\ authz' = IF verifyHotelAccessCatch
                THEN [authz EXCEPT !.pc = "done", !.threw = TRUE, !.hotelId = authz.target,
                                   !.next = TRUE]
                ELSE [authz EXCEPT !.pc = "done", !.threw = TRUE, !.status = 403,
                                   !.error = "Access denied to this hotel"]
    /\ UNCHANGED <<now, admins, guests, jwt, req, engineVars, orders, nextOrderId,
                   loginVars>>

AuthorizeFinish ==
    /\ authz # None /\ authz.pc = "done"
    /\ authz' = None
    /\ UNCHANGED <<now, admins, guests, jwt, req, engineVars, orders, nextOrderId,
                   loginVars>>

(* An order is placed: table orders *)
PlaceOrder(guestId, hotelId) ==
    /\ nextOrderId <= MaxOrders
    /\ \E g \in guests : g.id = guestId
    /\ orders' = orders \cup {[id |-> nextOrderId, guestId |-> guestId, hotelId |-> hotelId]}
    /\ nextOrderId' = nextOrderId + 1
    /\ UNCHANGED <<now, admins, guests, jwt, req, engineVars, loginVars, authz>>

(* A hotel is deleted: its admins, their verifications and its orders go
   with it (ON DELETE CASCADE, lines 896, 907, 954) *)
DeleteHotel(hotelId) ==
    /\ \E a \in admins : a.hotelId = hotelId
    /\ admins' = {a \in admins : a.hotelId # hotelId}
    /\ verifications' =
          {r \in verifications : \E a \in admins : a.id = r.adminId /\ a.hotelId # hotelId}
    /\ orders' = {o \in orders : o.hotelId # hotelId}
    /\ UNCHANGED <<now, guests, jwt, req, nextVerificationId, proc, lastCreate, consumed,
                   nextOrderId, loginVars, authz>>

----------------------------------------------------------------------------
(* The specifications *)

Init ==
    /\ now = 0
    /\ admins = AdminRows
    /\ verifications = {}
    /\ nextVerificationId = 1
    /\ proc = [p \in Procs |-> IdleProc]
    /\ lastCreate = None
    /\ consumed = {}
    /\ guests = GuestRows
    /\ jwt = None
    /\ req = None
    /\ orders = {}
    /\ nextOrderId = 1
    /\ nextGuestId = 3
    /\ login = [p \in Procs |-> IdleLogin]
    /\ loggedIn = {}
    /\ authz = None

Quiet(ps) == \A p \in ps : proc[p].pc \in {"idle", "done"}

VerifyStep(p, emails, codes) ==
    \/ \E e \in emails, c \in codes : VerifyRequest(p, e, c)
    \/ FindAdmin(p)
    \/ FindVerification(p)
    \/ Update(p)
    \/ Cleanup(p)
    \/ Finish(p)

Create(adminIds) ==
    \E a \in adminIds : CreateAdminVerification(a, DefaultExpirationMinutes)

(* Sequential histories: one call at a time, over all inputs *)
Next ==
    \/ Tick(ClockPoints)
    \/ Quiet(Procs) /\ Create(AdminIdInputs)
    \/ \E p \in {"r1"} : VerifyStep(p, EmailInputs, PasscodeInputs)

Spec == Init /\ [][Next]_vars

(* Two concurrent requests with one passcode, for the email of admin 1 or
   of nobody, while passcodes are created for both admins *)
RaceNext ==
    \/ Tick(ExpiryPoints)
    \/ Create({1, 2})
    \/ \E p \in Procs : VerifyStep(p, {"a@hotel.com", "x@hotel.com"}, {"100000"})

RaceSpec == Init /\ [][RaceNext]_vars

(* Sequential histories over a repository whose calls may throw *)
FaultNext ==
    \/ Tick(ExpiryPoints)
    \/ Quiet(Procs) /\ Create({1, 2})
    \/ \E p \in {"r1"} : VerifyStep(p, {"a@hotel.com", "x@hotel.com"}, {"100000"})
    \/ \E p \in {"r1"} : RepositoryThrows(p)
    \/ Quiet(Procs) /\ \E a \in {1, 2} : CreateThrows(a)

FaultSpec == Init /\ [][FaultNext]_vars

(* The admin login end to end, one request at a time *)
AdminLoginNext ==
    \/ Tick(ExpiryPoints)
    \/ Quiet(Procs) /\ \E e \in EmailInputs : RequestVerification(e)
    \/ \E p \in {"r1"} : VerifyStep(p, EmailInputs, PasscodeInputs)

AdminLoginSpec == Init /\ [][AdminLoginNext]_vars

(* Tokens minted, presented and verified over the token's life *)
TokenNext ==
    \/ TokenTick
    \/ \E payload \in AdminPayloads \cup GuestPayloads : TokenMint(payload)
    \/ \E kind \in PresentedKinds : TokenPresent(kind)
    \/ TokenVerify
    \/ TokenDrop

TokenSpec == Init /\ [][TokenNext]_vars

(* One request at a time through a guard, while principals are deleted and
   tokens expire *)
GuardNext ==
    \/ TokenTick
    \/ \E guard \in Guards, header \in GuardHeaders : Authenticate(guard, header)
    \/ AuthenticateLookup
    \/ GuardFinish
    \/ \E a \in {1, 2} : DeleteAdmin(a)
    \/ \E g \in {1, 2} : DeleteGuest(g)

GuardSpec == Init /\ [][GuardNext]_vars

(* One request at a time through a guard or through the hotel scoping, over
   a repository whose lookups may throw *)
GuardFaultNext ==
    \/ authz = None /\ \E guard \in Guards, header \in GuardHeaders :
                            Authenticate(guard, header)
    \/ AuthenticateLookup
    \/ AuthenticateLookupThrows
    \/ GuardFinish
    \/ req = None /\ \E g \in Scopers, a \in AttachedAdmins \cup {None},
                         u \in AttachedGuests \cup {None}, ps \in {None, Str(<<"7">>), Str(<<"8">>)} :
                            Authorize(g, a, u, ps, None, None)
    \/ AuthorizeAccess
    \/ AuthorizeAccessThrows
    \/ AuthorizeFinish
    \/ \E h \in {7, 8} : PlaceOrder(1, h)
    \/ \E a \in {1, 2} : DeleteAdmin(a)

GuardFaultSpec == Init /\ [][GuardFaultNext]_vars

(* One request at a time through a guard, while the principals' rows change *)
ProfileNext ==
    \/ \E guard \in Guards, header \in GuardHeaders : Authenticate(guard, header)
    \/ AuthenticateLookup
    \/ GuardFinish
    \/ \E n \in {"Ann", "Anna"}, ph \in {"111", "999"}, e \in {"a@hotel.com", "a2@hotel.com"} :
          ChangeAdmin(1, n, ph, e)
    \/ \E n \in {"Alice", "Alicia"}, e \in {"g@x.com", "g2@x.com"} : ChangeGuest(1, n, e)

ProfileSpec == Init /\ [][ProfileNext]_vars

(* Two concurrent guest logins *)
GuestRaceNext ==
    \/ \E p \in Procs, e \in {"g@x.com", "n@x.com"}, n \in {"Alice", "Nia"} :
          LoginRequest(p, e, n)
    \/ \E p \in Procs, e \in {"g@x.com", "n@x.com"}, n \in {"Alice", "Nia"} :
          FindOrCreateGuestCall(p, e, n)
    \/ \E p \in Procs : FindGuest(p)
    \/ \E p \in Procs : CreateGuest(p)
    \/ \E p \in Procs : UpdateGuest(p)
    \/ \E p \in Procs : LoginFinish(p)

GuestRaceSpec == Init /\ [][GuestRaceNext]_vars

(* Hotel scoping of an admin's requests while the admin changes hotel *)
TenancyNext ==
    \/ \E g \in Scopers, a \in AttachedAdmins \cup {None}, u \in AttachedGuests \cup {None},
          ps \in RawHotelIds, q \in {None, Str(<<"8">>), Str(<<"9">>)} :
            Authorize(g, a, u, ps, None, q)
    \/ AuthorizeAccess
    \/ AuthorizeFinish
    \/ \E h \in {7, 8, 9} : MoveAdmin(1, h)
    \/ DeleteAdmin(1)

TenancySpec == Init /\ [][TenancyNext]_vars

(* Sequential histories in which a request is over within minutes: the
   clock passes a day only between requests *)
CleanupNext ==
    \/ Tick(ExpiryPoints)
    \/ Quiet(Procs) /\ Tick(ClockPoints)
    \/ Quiet(Procs) /\ Create({1, 2})
    \/ \E p \in {"r1"} :
          VerifyStep(p, {"a@hotel.com", "b@hotel.com"}, {"100000", "999998"})

CleanupSpec == Init /\ [][CleanupNext]_vars

(* Guest login, one call at a time *)
GuestNext ==
    \/ \E e \in GuestEmailInputs, n \in GuestNameInputs : LoginRequest("r1", e, n)
    \/ \E e \in GuestEmailInputs \ {""}, n \in GuestNameInputs :
          FindOrCreateGuestCall("r1", e, n)
    \/ FindGuest("r1")
    \/ CreateGuest("r1")
    \/ UpdateGuest("r1")
    \/ LoginFinish("r1")

GuestSpec == Init /\ [][GuestNext]_vars

(* Hotel scoping over a changing repository *)
ScopeNext ==
    \/ \E g \in Scopers, a \in AttachedAdmins \cup {None}, u \in AttachedGuests \cup {None},
          ps \in RawHotelIds, b \in RawHotelIds, q \in RawHotelIds :
            Authorize(g, a, u, ps, b, q)
    \/ AuthorizeAccess
    \/ AuthorizeFinish
    \/ \E h \in {7, 8} : PlaceOrder(1, h)
    \/ \E h \in {7, 8} : DeleteHotel(h)

ScopeSpec == Init /\ [][ScopeNext]_vars

----------------------------------------------------------------------------
(* Vocabulary of the properties *)

InvalidOrExpired == [success |-> FALSE, message |-> "Invalid or expired passcode"]

Returned(p) == proc[p].pc = "done" /\ proc[p].result # None

Succeeded(p) == Returned(p) /\ proc[p].result.success

AdminIdOf(email) == {a.id : a \in {b \in admins : b.email = email}}

(* The step in which the lookup of request p comes back *)
LookupStep(p) == proc[p].pc = "findVerification" /\ proc'[p].pc # "findVerification"

(* The step in which request p returns success *)
SuccessStep(p) ==
    /\ proc[p].pc = "cleanup"
    /\ proc'[p].pc = "done"
    /\ proc'[p].result.success

----------------------------------------------------------------------------
(* C1: two concurrent verifications with the same email and passcode, begun
   while the one record ever created matches them and ended before it
   expires: exactly one returns success, the other 'Invalid or expired
   passcode'.  The code reads the record and marks it in two steps, and both
   requests can read it before either marks it. *)
C1_ExactlyOneSucceeds ==
    \A p, q \in Procs :
        ( /\ p # q
          /\ Returned(p) /\ Returned(q)
          /\ proc[p].email = proc[q].email
          /\ proc[p].passcode = proc[q].passcode
          /\ nextVerificationId = 2
          /\ proc[p].startId = 2 /\ proc[q].startId = 2
          /\ \E r \in verifications :
                /\ r.adminId \in AdminIdOf(proc[p].email)
                /\ r.passcode = proc[p].passcode
                /\ now < r.expiresAt )
        => \E w \in {p, q} : \E l \in {p, q} \ {w} :
                /\ proc[w].result.success
                /\ proc[l].result = InvalidOrExpired

C1_RaceWitness ==
    \E p, q \in Procs :
        /\ p # q
        /\ Succeeded(p) /\ Succeeded(q)
        /\ proc[p].verification.id = proc[q].verification.id

----------------------------------------------------------------------------
(* Parts of C2, over the steps of a sequential history *)

(* A lookup comes back empty only when the admin has no unused, unexpired
   record with the passcode: a passcode just created verifies before expiry *)
ValidPasscodeVerifies ==
    \A p \in Procs :
        (LookupStep(p) /\ proc'[p].pc = "done")
        => ~ \E r \in verifications :
                /\ r.adminId = proc[p].admin.id
                /\ r.passcode = proc[p].passcode
                /\ ~r.used
                /\ now < r.expiresAt

(* A success that follows a success with the same email and passcode is
   granted on a record created after that earlier success *)
LaterNeedsNewRecord ==
    \A p \in Procs :
        SuccessStep(p)
        => \A c \in consumed :
              (c.adminId = proc[p].admin.id /\ c.passcode = proc[p].passcode)
              => proc[p].verification.id >= c.upTo

(* A success is granted on a record no earlier success was granted on *)
RecordVerifiesOnce ==
    \A p \in Procs :
        SuccessStep(p) => proc[p].verification.id \notin {c.id : c \in consumed}

(* C2 as claimed: in a sequential history the first verification of a
   created passcode before its expiry succeeds, and every later one with the
   same email and passcode fails unless a record with that passcode was
   created in between. *)
C2_OnceUnlessCreatedBetween == [][ValidPasscodeVerifies /\ LaterNeedsNewRecord]_vars

(* C2 as amended: in a sequential history the first verification of a created
   passcode before its expiry succeeds, and every later one with the same
   email and passcode succeeds only on another record of that admin with that
   passcode, created before or after, each record granting one success. *)
C2_OncePerRecord == [][ValidPasscodeVerifies /\ RecordVerifiesOnce]_vars

(* Two successes with one email and passcode and no record created between them *)
C2_TwoRecordsOnePasscode ==
    \E c, d \in consumed :
        /\ c.id # d.id
        /\ c.adminId = d.adminId /\ c.passcode = d.passcode
        /\ c.upTo = d.upTo

----------------------------------------------------------------------------
(* C3: when every record of the admin with the given passcode has
   expiresAt <= now at the lookup, the call fails with 'Invalid or expired
   passcode' in that step and the store is left as it was, used or not. *)
C3_ExpiredNeverVerifies ==
    [][ \A p \in Procs :
          ( /\ LookupStep(p)
            /\ \A r \in verifications :
                  (r.adminId = proc[p].admin.id /\ r.passcode = proc[p].passcode)
                  => r.expiresAt <= now )
          => /\ proc'[p].pc = "done"
             /\ proc'[p].result = InvalidOrExpired
             /\ proc'[p].response.status = 401
             /\ verifications' = verifications ]_vars

(* A call that began after a record with its passcode was created has
   failed on it, the record never used and now expired *)
C3_ExpiredUnusedRejected ==
    \E p \in Procs :
        /\ Returned(p)
        /\ proc[p].result = InvalidOrExpired
        /\ \E r \in verifications :
              /\ r.adminId \in AdminIdOf(proc[p].email)
              /\ r.passcode = proc[p].passcode
              /\ ~r.used
              /\ r.expiresAt <= now
              /\ r.id < proc[p].startId
        /\ \A r \in verifications :
              (r.adminId \in AdminIdOf(proc[p].email) /\ r.passcode = proc[p].passcode)
              => r.id < proc[p].startId /\ ~r.used

----------------------------------------------------------------------------
(* C4: a lookup finds only a record owned by the admin of the email, with the
   passcode of the call, unused and unexpired at that time; success is
   returned only after such a lookup, with the id and hotel of that admin. *)
C4_FoundRecordMatches ==
    \A p \in Procs :
        (LookupStep(p) /\ proc'[p].pc # "done")
        => \E a \in admins : \E r \in verifications :
              /\ a.email = proc[p].email
              /\ r = proc'[p].verification
              /\ r.adminId = a.id
              /\ r.passcode = proc[p].passcode
              /\ r.used = FALSE
              /\ r.expiresAt > now

C4_SuccessIsOfTheAdmin ==
    \A p \in Procs :
        Succeeded(p)
        => \E a \in admins :
              /\ a.email = proc[p].email
              /\ proc[p].result.adminId = a.id
              /\ proc[p].result.hotelId = a.hotelId
              /\ proc[p].verification # None
              /\ proc[p].verification.adminId = a.id
              /\ proc[p].verification.passcode = proc[p].passcode

C4_SuccessOnlyOnOwnValidRecord == [][C4_FoundRecordMatches]_vars /\ []C4_SuccessIsOfTheAdmin

(* A verification for one admin's email has failed while an unused,
   unexpired record with its passcode belongs to another admin *)
C4_OtherAdminsPasscodeRejected ==
    \E p \in Procs :
        /\ Returned(p)
        /\ proc[p].result = InvalidOrExpired
        /\ \E r \in verifications :
              /\ r.adminId \notin AdminIdOf(proc[p].email)
              /\ r.passcode = proc[p].passcode
              /\ ~r.used
              /\ now < r.expiresAt
              /\ r.id < proc[p].startId

----------------------------------------------------------------------------
(* C5: a failed verification does not tell an unknown email from a wrong
   passcode: the result and the HTTP response for an email of no admin equal
   those for an admin's email with a passcode that matches no valid record. *)
C5_FailureDoesNotRevealCause ==
    \A p, q \in Procs :
        ( /\ Returned(p) /\ Returned(q)
          /\ AdminIdOf(proc[p].email) = {}
          /\ AdminIdOf(proc[q].email) # {}
          /\ ~proc[q].result.success )
        => /\ proc[p].result = proc[q].result
           /\ proc[p].response = proc[q].response

----------------------------------------------------------------------------
(* C6: once the matching record is marked used, a failure of the cleanup
   deletion leaves the outcome success=true with the admin's ids. *)
C6_CleanupFailureKeepsSuccess ==
    \A p \in Procs :
        (proc[p].pc = "done" /\ proc[p].thrown = "cleanup")
        => /\ proc[p].result.success
           /\ proc[p].result.adminId = proc[p].admin.id
           /\ proc[p].result.hotelId = proc[p].admin.hotelId

----------------------------------------------------------------------------
(* C9: createAdminVerification adds one record with used=false and a fresh
   id and changes no other record, so that every earlier record still unused
   and unexpired is still found by a verification with its passcode, whatever
   the order, and grants one success. *)
CreateOnlyAdds ==
    nextVerificationId' # nextVerificationId
    => \E r \in verifications' :
          /\ r.id = nextVerificationId
          /\ r.used = FALSE
          /\ r.createdAt = now
          /\ r.expiresAt = now + DefaultExpirationMinutes
          /\ \A o \in verifications : o.id # r.id
          /\ verifications' = verifications \cup {r}

C9_CreateLeavesEarlierPasscodesValid ==
    [][CreateOnlyAdds /\ ValidPasscodeVerifies /\ RecordVerifiesOnce]_vars

(* A success was granted on a record while a newer record of the same admin,
   still unused, was in the store *)
C9_OlderVerifiedAfterNewer ==
    \E c \in consumed : \E r \in verifications :
        /\ r.adminId = c.adminId
        /\ r.id > c.id
        /\ r.id < c.upTo
        /\ ~r.used

----------------------------------------------------------------------------
(* C10: createAdminVerification for an id of no admin returns success=false
   with 'Admin not found' and neither passcode nor expiresAt, and persists
   nothing: no record of the store belongs to an id of no admin. *)
C10_ResultForUnknownAdmin ==
    /\ (lastCreate # None /\ AdminById(lastCreate.adminId) = {})
       => lastCreate.result = [success |-> FALSE, message |-> "Admin not found"]
    /\ \A r \in verifications : AdminById(r.adminId) # {}

C10_NothingPersistedForUnknownAdmin ==
    (lastCreate' # lastCreate /\ AdminById(lastCreate'.adminId) = {})
    => UNCHANGED <<verifications, nextVerificationId>>

C10_UnknownAdminIsAFailureResult ==
    []C10_ResultForUnknownAdmin /\ [][C10_NothingPersistedForUnknownAdmin]_vars

(* A call for an id of no admin has returned over a store that holds records *)
C10_UnknownAdminCalled ==
    /\ lastCreate # None
    /\ AdminById(lastCreate.adminId) = {}
    /\ verifications # {}

----------------------------------------------------------------------------
(* C7: in authenticateAdmin, authenticateGuest and authenticateUser, when the
   token has verified but the principal of its claims is no longer in the
   repository, the guard answers 401, attaches no principal and does not call
   next(); next() is called only from the lookup of a principal that exists,
   with that principal attached. *)
Attached(principal) == "none" \notin DOMAIN principal

PrincipalExists(payload) ==
    IF payload.type = "admin" THEN \E a \in admins : a.id = payload.adminId
    ELSE \E g \in guests : g.id = payload.guestId

C7_DeletedIsRejected ==
    (req # None /\ req.pc = "lookup" /\ req' # None /\ req'.pc = "done"
        /\ ~PrincipalExists(req.payload))
    => /\ req'.status = 401
       /\ ~Attached(req'.admin)
       /\ ~Attached(req'.guest)
       /\ req'.next = FALSE

C7_NextOnlyForExisting ==
    (req' # None /\ req'.next /\ ~(req # None /\ req.next))
    => /\ req # None /\ req.pc = "lookup"
       /\ PrincipalExists(req.payload)
       /\ req'.status = 0
       /\ IF req.payload.type = "admin"
          THEN Attached(req'.admin) /\ req'.admin.id = req.payload.adminId
               /\ ~Attached(req'.guest)
          ELSE Attached(req'.guest) /\ req'.guest.id = req.payload.guestId
               /\ ~Attached(req'.admin)

C7_DeletedPrincipalRejected == [][C7_DeletedIsRejected /\ C7_NextOnlyForExisting]_vars

(* authenticateUser has answered 401 to a token that verifies, of an admin
   who was deleted *)
C7_ValidTokenOfDeletedAdmin ==
    /\ req # None
    /\ req.guard = "authenticateUser"
    /\ req.pc = "done"
    /\ req.status = 401
    /\ ~req.next
    /\ ~Falsy(extractTokenFromHeader(req.header))
    /\ verifyToken(extractTokenFromHeader(req.header), now) # None
    /\ verifyToken(extractTokenFromHeader(req.header), now).type = "admin"
    /\ ~ \E a \in admins : a.id = verifyToken(extractTokenFromHeader(req.header), now).adminId

----------------------------------------------------------------------------
(* C8: verifyToken of the token minted for a payload, before its expiry,
   returns claims whose type and fields are those of the payload; verifyToken
   of anything else (a token changed after minting, signed with another
   secret or for another issuer, malformed) or at or after the expiry
   returns null. *)
C8_TokenRoundTrip ==
    (jwt # None /\ jwt.pc = "verified")
    => IF jwt.presented = jwt.token /\ jwt.verifiedAt < jwt.mintedAt + 7 * 24 * 60
       THEN /\ jwt.decoded # None
            /\ \A f \in DOMAIN jwt.payload : jwt.decoded[f] = jwt.payload[f]
            /\ jwt.decoded.iss = "zapmenu"
            /\ jwt.decoded.sub =
                 (IF jwt.payload.type = "admin"
                  THEN "admin:" \o ToString(jwt.payload.adminId)
                  ELSE "guest:" \o ToString(jwt.payload.guestId))
       ELSE jwt.decoded = None

(* An admin's token has verified a day after it was minted *)
C8_AdminTokenVerified ==
    /\ jwt # None /\ jwt.pc = "verified"
    /\ jwt.payload.type = "admin"
    /\ jwt.kind = "minted"
    /\ jwt.verifiedAt > jwt.mintedAt
    /\ jwt.decoded # None

----------------------------------------------------------------------------
(* C11: the passcodes generatePasscode can return are exactly the decimal
   renderings of the integers 100000 through 999999 inclusive: a passcode
   that createAdminVerification returned is the rendering of a value of that
   range, and of the values the random source is sampled at, those whose
   rendering can be returned are those of that range, 999999 among them. *)
InPasscodeRange(n) == 100000 <= n /\ n <= 999999

C11_PasscodeRangeInclusive ==
    (lastCreate # None /\ lastCreate.result.success)
    => /\ \E n \in RandomSamples :
              InPasscodeRange(n) /\ lastCreate.result.passcode = ToString(n)
       /\ {n \in RandomSamples : ToString(n) \in generatePasscode}
              = {n \in RandomSamples : InPasscodeRange(n)}

(* createAdminVerification has returned the largest passcode the source gives *)
C11_LargestPasscodeReturned ==
    /\ lastCreate # None
    /\ lastCreate.result.success
    /\ lastCreate.result.passcode = "999998"

----------------------------------------------------------------------------
(* C12: authorizeGuestHotel calls next() only from its access check, and only
   if at that moment the guest has an order at the target hotel; a guest
   without an order there is answered 403 and next() is not called; a request
   that carries only a guest never passes authorizeAdminHotel. *)
GuestHasOrderAt(guestId, hotelId) ==
    \E o \in orders : o.guestId = guestId /\ o.hotelId = hotelId

C12_NextNeedsOrder ==
    (authz' # None /\ authz'.guard = "authorizeGuestHotel" /\ authz'.next
        /\ ~(authz # None /\ authz.next))
    => /\ authz # None /\ authz.pc = "access"
       /\ Attached(authz.guest)
       /\ GuestHasOrderAt(authz.guest.guestId, authz.target)
       /\ authz'.hotelId = authz.target

C12_NoOrderIsDenied ==
    (authz # None /\ authz.guard = "authorizeGuestHotel" /\ authz.pc = "access"
        /\ authz' # None /\ authz'.pc = "done"
        /\ ~GuestHasOrderAt(authz.guest.guestId, authz.target))
    => authz'.status = 403 /\ ~authz'.next

C12_GuestAloneIsNoAdmin ==
    (authz' # None /\ authz'.guard = "authorizeAdminHotel" /\ ~Attached(authz'.admin))
    => ~authz'.next

C12_GuestAccessIsEarned ==
    [][C12_NextNeedsOrder /\ C12_NoOrderIsDenied /\ C12_GuestAloneIsNoAdmin]_vars

(* A guest with an order at hotel 8 alone has been denied hotel 7 *)
C12_GuestDeniedOtherHotel ==
    /\ authz # None /\ authz.guard = "authorizeGuestHotel"
    /\ authz.pc = "done" /\ authz.status = 403 /\ ~authz.next
    /\ authz.target = 7
    /\ GuestHasOrderAt(authz.guest.guestId, 8)
    /\ ~GuestHasOrderAt(authz.guest.guestId, 7)

----------------------------------------------------------------------------
(* The hotel id the scoping step reads: the first of route, body and query
   that is given, or None *)
GivenHotelId(params, body, query) ==
    IF Truthy(params) THEN params
    ELSE IF Truthy(body) THEN body
    ELSE IF Truthy(query) THEN query
    ELSE None

IsNumeric(raw) == raw.text # <<>> /\ \A i \in 1..Len(raw.text) : IsDigit(raw.text[i])

Authenticated(r) ==
    IF r.guard = "authorizeAdminHotel" THEN Attached(r.admin) ELSE Attached(r.guest)

(* C16: when the hotel id that an authenticated request gives to
   authorizeAdminHotel or authorizeGuestHotel is not numeric, the request is
   answered 400 at once and next() is not called. *)
C16_NonNumericHotelIdIs400 ==
    (authz # None /\ Authenticated(authz)
        /\ GivenHotelId(authz.params, authz.body, authz.query) # None
        /\ ~IsNumeric(GivenHotelId(authz.params, authz.body, authz.query)))
    => authz.pc = "done" /\ authz.status = 400 /\ ~authz.next

(* authorizeGuestHotel has answered 400 to the hotel id "abc" *)
C16_GuestNonNumericIs400 ==
    /\ authz # None /\ authz.guard = "authorizeGuestHotel" /\ Authenticated(authz)
    /\ authz.params = Str(<<"a", "b", "c">>)
    /\ authz.pc = "done" /\ authz.status = 400 /\ ~authz.next

(* C17: the target hotel id is the value of the route parameter if given,
   else of the body, else of the query; a request that passes carries it as
   req.hotelId; authorizeAdminHotel passes with the admin's own hotelId only
   when none of the three is given, and authorizeGuestHotel answers 400 when
   none is given. *)
C17_TargetIsFirstGiven ==
    (authz # None /\ Authenticated(authz))
    => LET given == GivenHotelId(authz.params, authz.body, authz.query)
       IN  /\ authz.next =>
                IF given = None
                THEN authz.guard = "authorizeAdminHotel"
                     /\ authz.hotelId = authz.admin.hotelId
                ELSE ~parseInt(given).nan /\ authz.hotelId = parseInt(given).value
           /\ (authz.guard = "authorizeGuestHotel" /\ given = None)
                => authz.pc = "done" /\ authz.status = 400 /\ ~authz.next

(* authorizeAdminHotel has passed a request whose route names hotel 7 while
   its body names hotel 8 *)
C17_RouteBeforeBody ==
    /\ authz # None /\ authz.guard = "authorizeAdminHotel" /\ authz.next
    /\ authz.params = Str(<<"7">>) /\ authz.body = Str(<<"8">>)
    /\ authz.hotelId = 7

----------------------------------------------------------------------------
(* C13: in a sequential history of findOrCreateGuest calls, a call for an
   email that is not in the store creates exactly one guest with that email
   and returns its id; a call for an email that is in the store creates no
   record and returns the id of that guest, so that all successful calls with
   one email return one guestId; and when a call with a non-empty name has
   returned, the stored name of the guest it returned is that name. *)
LoginReturns(p) == login[p].pc # "done" /\ login'[p].pc = "done" /\ login'[p].result # None

C13_OneGuestPerEmail ==
    /\ \A x \in loggedIn, y \in loggedIn : x.email = y.email => x.guestId = y.guestId
    /\ \A g \in guests, h \in guests : g.email = h.email => g = h

C13_NameIsStored ==
    \A p \in Procs :
        (login[p].pc = "done" /\ login[p].result # None /\ login[p].result.success
            /\ login[p].name # "")
        => \E g \in guests : /\ g.id = login[p].result.guestId
                             /\ g.email = login[p].email
                             /\ g.name = login[p].name

C13_CreatesOnlyWhenAbsent ==
    \A p \in Procs :
        LoginReturns(p) =>
            IF GuestByEmail(login[p].email) = {}
            THEN /\ login'[p].result.success
                 /\ \E g \in guests' :
                        /\ g.email = login[p].email
                        /\ g.id = login'[p].result.guestId
                        /\ g \notin guests
                        /\ guests' = guests \cup {g}
            ELSE /\ login'[p].result.success
                 /\ \E g \in guests : g.email = login[p].email
                                      /\ g.id = login'[p].result.guestId
                 /\ {g.id : g \in guests'} = {g.id : g \in guests}

C13_NoOtherStepWrites ==
    (\A p \in Procs : ~LoginReturns(p)) => guests' = guests

C13_FindOrCreateGuest ==
    /\ [](C13_OneGuestPerEmail /\ C13_NameIsStored)
    /\ [][C13_CreatesOnlyWhenAbsent /\ C13_NoOtherStepWrites]_vars

(* A guest created by an earlier call has logged in again under another name,
   which is now the stored one *)
C13_ReturningGuestRenamed ==
    /\ login["r1"].pc = "done"
    /\ login["r1"].result # None /\ login["r1"].result.success
    /\ login["r1"].result.message = "Guest found"
    /\ login["r1"].guest # None
    /\ login["r1"].result.guestId > Cardinality(GuestRows)
    /\ \E g \in guests : g.id = login["r1"].result.guestId /\ g.name = login["r1"].name

----------------------------------------------------------------------------
(* C14: when POST /auth/admin/request-verification has answered 200 for an
   admin's email and POST /auth/admin/verify is then called with that email
   and the passcode of that answer, the lookup made before the expiry finds a
   record, and the request that succeeds is answered 200 with a token that
   verifies to that admin's adminId, that admin's hotelId and type 'admin';
   only a response to a successful verifyAdminPasscode carries a token. *)
C14_ReturnedPasscodeIsFound ==
    \A p \in Procs :
        ( /\ LookupStep(p)
          /\ lastCreate # None /\ lastCreate.response.status = 200
          /\ proc[p].email = lastCreate.email
          /\ proc[p].passcode = lastCreate.response.body.passcode
          /\ now < lastCreate.response.body.expiresAt
          /\ proc[p].startId = nextVerificationId
          /\ (nextVerificationId - 1) \notin {c.id : c \in consumed} )
        => proc'[p].pc = "update"

C14_SuccessIs200WithToken ==
    \A p \in Procs :
        Succeeded(p)
        => /\ proc[p].response.status = 200
           /\ LET claims == verifyToken(proc[p].response.body.token, now)
              IN  /\ claims # None
                  /\ claims.type = "admin"
                  /\ claims.email = proc[p].email
                  /\ \E a \in admins : /\ a.email = proc[p].email
                                       /\ claims.adminId = a.id
                                       /\ claims.hotelId = a.hotelId

C14_TokenOnlyAfterSuccess ==
    \A p \in Procs :
        (proc[p].response # None /\ "token" \in DOMAIN proc[p].response.body)
        => Succeeded(p)

C14_AdminLoginEndToEnd ==
    /\ [](C14_SuccessIs200WithToken /\ C14_TokenOnlyAfterSuccess)
    /\ [][C14_ReturnedPasscodeIsFound]_vars

(* Admin 1 has requested a passcode and verified it: 200 with a token *)
C14_AdminOneLoggedIn ==
    /\ lastCreate # None /\ lastCreate.response.status = 200
    /\ lastCreate.email = "a@hotel.com"
    /\ proc["r1"].pc = "done"
    /\ proc["r1"].email = "a@hotel.com"
    /\ proc["r1"].passcode = lastCreate.response.body.passcode
    /\ proc["r1"].response.status = 200
    /\ proc["r1"].response.body.token.claims.adminId = 1
    /\ proc["r1"].response.body.token.claims.hotelId = 7

----------------------------------------------------------------------------
(* C15: a guard goes on to its lookup only with the claims of a token that
   verifies, and answers 401 at once when their type is not one it takes:
   authenticateAdmin takes 'admin', authenticateGuest takes 'guest',
   authenticateUser takes both; next() is called with req.admin alone for
   type 'admin' and with req.guest alone for type 'guest'. *)
TypesTaken(guard) ==
    IF guard = "authenticateAdmin" THEN {"admin"}
    ELSE IF guard = "authenticateGuest" THEN {"guest"}
    ELSE {"admin", "guest"}

C15_WrongTypeIs401 ==
    (req = None /\ req' # None)
    => LET token == extractTokenFromHeader(req'.header)
           claims == IF Falsy(token) THEN None ELSE verifyToken(token, now)
       IN  IF claims # None /\ claims.type \in TypesTaken(req'.guard)
           THEN req'.pc = "lookup" /\ req'.payload = claims /\ ~req'.next
           ELSE req'.pc = "done" /\ req'.status = 401 /\ ~req'.next

C15_NextByType ==
    (req # None /\ req.next)
    => /\ req.payload # None
       /\ req.payload.type \in TypesTaken(req.guard)
       /\ Attached(req.admin) <=> req.payload.type = "admin"
       /\ Attached(req.guest) <=> req.payload.type = "guest"

C15_NeverBoth ==
    req # None => ~(Attached(req.admin) /\ Attached(req.guest))

C15_PrincipalKindByType ==
    /\ [](C15_NextByType /\ C15_NeverBoth)
    /\ [][C15_WrongTypeIs401]_vars

(* authenticateAdmin has answered 401 to a guest's token that verifies *)
C15_GuestTokenAtAdminGuard ==
    /\ req # None /\ req.guard = "authenticateAdmin"
    /\ req.pc = "done" /\ req.status = 401 /\ ~req.next
    /\ ~Falsy(extractTokenFromHeader(req.header))
    /\ verifyToken(extractTokenFromHeader(req.header), now) # None
    /\ verifyToken(extractTokenFromHeader(req.header), now).type = "guest"

----------------------------------------------------------------------------
(* C18: a repository failure inside verifyAdminPasscode makes
   POST /auth/admin/verify answer 500 with a generic message. *)
C18_RepositoryFailureIs500 ==
    \A p \in Procs :
        (proc[p].pc = "done" /\ proc[p].thrown # "")
        => proc[p].response.status = 500

(* The lookup of the admin threw and the route has answered *)
C18_LookupThrewAndAnswered ==
    /\ proc["r1"].pc = "done"
    /\ proc["r1"].thrown = "findAdmin"
    /\ proc["r1"].result = FailedToVerify
    /\ proc["r1"].response.status = 401

----------------------------------------------------------------------------
(* C19: when the repository lookup of a guard step throws (the principal's
   lookup in authenticateAdmin, authenticateGuest, authenticateUser, or the
   access predicate in authorizeAdminHotel, authorizeGuestHotel), the request
   is answered with an error status, next() is not called and nothing is
   attached to it; a request that proceeds carries a principal. *)
C19_ThrownLookupRejects ==
    /\ (req # None /\ req.threw)
        => /\ req.pc = "done" /\ req.status >= 400 /\ ~req.next
           /\ ~Attached(req.admin) /\ ~Attached(req.guest)
    /\ (authz # None /\ authz.threw)
        => /\ authz.pc = "done" /\ authz.status >= 400 /\ ~authz.next
           /\ authz.hotelId = 0
    /\ (req # None /\ req.next) => (Attached(req.admin) \/ Attached(req.guest))
    /\ (authz # None /\ authz.next) => Authenticated(authz)

(* The order lookup threw for a guest who has an order at the hotel, and the
   guest was denied *)
C19_ThrownForEntitledGuest ==
    /\ authz # None /\ authz.guard = "authorizeGuestHotel"
    /\ authz.threw /\ authz.pc = "done" /\ authz.status = 403
    /\ GuestHasOrderAt(authz.guest.guestId, authz.target)

----------------------------------------------------------------------------
(* C20: the lookup of a verification picks, among the unused, unexpired
   records of the admin that carry the passcode, one of the latest createdAt;
   the update that follows marks exactly that record used, which was unused
   until then, and leaves every other record as it is, so that each success
   takes one record of its own and n records allow n successes. *)
C20_PicksTheLatest ==
    \A p \in Procs :
        (LookupStep(p) /\ proc'[p].pc = "update")
        => LET same == {r \in verifications : /\ r.adminId = proc[p].admin.id
                                              /\ r.passcode = proc[p].passcode
                                              /\ ~r.used
                                              /\ r.expiresAt > now}
           IN  /\ proc'[p].verification \in same
               /\ \A o \in same : o.createdAt <= proc'[p].verification.createdAt

C20_MarksOneUnused ==
    \A p \in Procs :
        (proc[p].pc = "update" /\ proc'[p].pc = "cleanup")
        => \E r \in verifications :
              /\ r.id = proc[p].verification.id
              /\ ~r.used
              /\ verifications' = (verifications \ {r}) \cup {[r EXCEPT !.used = TRUE]}

C20_EachSuccessTakesOneRecord == [][C20_PicksTheLatest /\ C20_MarksOneUnused]_vars

(* Of two records of one admin with one passcode, a verification has
   succeeded on one and the other is still unused *)
C20_OneOfTwoTaken ==
    \E p \in Procs : \E r \in verifications : \E o \in verifications :
        /\ Succeeded(p)
        /\ r.id = proc[p].verification.id /\ r.used
        /\ o.id # r.id /\ o.adminId = r.adminId /\ o.passcode = r.passcode /\ ~o.used

----------------------------------------------------------------------------
(* C21 as claimed: when verifyAdminPasscode returns success for an admin, no
   used record of that admin created more than 24 hours before is left in
   the store. *)
C21_StaleByCreation ==
    \A p \in Procs :
        SuccessStep(p)
        => ~ \E r \in verifications' :
                /\ r.adminId = proc[p].admin.id
                /\ r.used
                /\ r.createdAt < now - 24 * 60

C21_NoUsedRecordOlderThanADay == [][C21_StaleByCreation]_vars

(* C21 as the code has it: when verifyAdminPasscode returns success for an
   admin, no used record of that admin whose expiry lies more than 24 hours
   back is left in the store; a used record stays for 24 hours past its
   expiry, whenever it was created. *)
C21_StaleByExpiry ==
    \A p \in Procs :
        SuccessStep(p)
        => ~ \E r \in verifications' :
                /\ r.adminId = proc[p].admin.id
                /\ r.used
                /\ r.expiresAt < now - 24 * 60

C21_NoUsedRecordExpiredADayAgo == [][C21_StaleByExpiry]_vars

(* A verification has succeeded and a record that an earlier success was
   granted on is gone from the store *)
C21_EarlierRecordCleanedUp ==
    \E p \in Procs :
        /\ Succeeded(p)
        /\ \E c \in consumed :
              /\ c.adminId = proc[p].admin.id
              /\ c.id # proc[p].verification.id
              /\ ~ \E r \in verifications : r.id = c.id

----------------------------------------------------------------------------
(* C22: when authenticateAdmin or authenticateGuest calls next(), name, phone
   and email of req.admin (name and email of req.guest) are those of the
   stored row at the lookup, whatever the token says. *)
C22_AttachedIsStored ==
    (req # None /\ req.pc = "lookup" /\ req' # None /\ req'.next
        /\ req.guard \in {"authenticateAdmin", "authenticateGuest"})
    => IF req.guard = "authenticateAdmin"
       THEN \E a \in admins : /\ a.id = req'.admin.id
                              /\ a.name = req'.admin.name
                              /\ a.phone = req'.admin.phone
                              /\ a.email = req'.admin.email
       ELSE \E g \in guests : /\ g.id = req'.guest.id
                              /\ g.name = req'.guest.name
                              /\ g.email = req'.guest.email

C22_PrincipalCarriesStoredFields == [][C22_AttachedIsStored]_vars

(* authenticateAdmin has attached the name and phone that admin 1 took after
   the token was minted *)
C22_NewNameAttached ==
    /\ req # None /\ req.guard = "authenticateAdmin" /\ req.next
    /\ req.admin.id = 1
    /\ req.admin.name = "Anna" /\ req.admin.phone = "999"

----------------------------------------------------------------------------
(* C23: two findOrCreateGuest calls with one email that was in no guest
   record when they began, both begun before any guest was created: both
   return success=true with the same guestId, and exactly one guest with
   that email is in the store. *)
C23_ConcurrentLoginsAgree ==
    \A p \in Procs, q \in Procs :
        ( /\ p # q
          /\ login[p].pc = "done" /\ login[p].result # None
          /\ login[q].pc = "done" /\ login[q].result # None
          /\ login[p].email = login[q].email
          /\ login[p].email \notin {g.email : g \in GuestRows}
          /\ login[p].startId = Cardinality(GuestRows) + 1
          /\ login[q].startId = Cardinality(GuestRows) + 1 )
        => /\ login[p].result.success
           /\ login[q].result.success
           /\ login[p].result.guestId = login[q].result.guestId
           /\ Cardinality(GuestByEmail(login[p].email)) = 1

(* Both calls looked the email up before either created it: one created the
   guest, the other's create was refused *)
C23_SecondCreateRefused ==
    \E p \in Procs, q \in Procs :
        /\ login[p].pc = "done" /\ login[p].result # None /\ login[p].result.success
        /\ login[p].result.message = "Guest created successfully"
        /\ login[q].pc = "done" /\ login[q].result = FailedToFindOrCreate
        /\ login[p].email = login[q].email

----------------------------------------------------------------------------
(* C24: authorizeAdminHotel calls next() only from its access check, and only
   if at that moment the stored hotelId of the admin is the target hotel id,
   which becomes req.hotelId: an admin moved to another hotel gets, with the
   old token, neither the token's hotel nor any hotel but the current one. *)
C24_NextNeedsCurrentHotel ==
    (authz' # None /\ authz'.guard = "authorizeAdminHotel" /\ authz'.next
        /\ ~(authz # None /\ authz.next))
    => /\ authz # None /\ authz.pc = "access"
       /\ Attached(authz.admin)
       /\ \E a \in admins : a.id = authz.admin.adminId /\ a.hotelId = authz.target
       /\ authz'.hotelId = authz.target

C24_AdminAccessIsCurrent == [][C24_NextNeedsCurrentHotel]_vars

(* Admin 1, moved away from hotel 7, was denied hotel 7 with the token
   minted at hotel 7 *)
C24_OldHotelDenied ==
    /\ authz # None /\ authz.guard = "authorizeAdminHotel"
    /\ authz.pc = "done" /\ authz.status = 403 /\ ~authz.next
    /\ authz.admin.hotelId = 7 /\ authz.target = 7
    /\ \E a \in admins : a.id = authz.admin.adminId /\ a.hotelId # 7

----------------------------------------------------------------------------
(* C25: the cleanup of a successful verifyAdminPasscode for an admin changes
   no record and deletes only records of that admin with used=true, never
   the record the call itself has just marked used. *)
C25_CleanupDeletesOwnUsed ==
    \A p \in Procs :
        SuccessStep(p)
        => /\ verifications' \subseteq verifications
           /\ \A r \in verifications \ verifications' :
                 /\ r.adminId = proc[p].admin.id
                 /\ r.used
                 /\ r.id # proc[p].verification.id
           /\ \E r \in verifications' : r.id = proc[p].verification.id /\ r.used

----------------------------------------------------------------------------
(* C26: the steps of a verifyAdminPasscode call up to and including its
   lookups, which are all the steps of a call that returns 'Admin not found'
   or 'Invalid or expired passcode', leave the passcode store as it is, and
   no record was created while such a call ran. *)
C26_LookupsWriteNothing ==
    \A p \in Procs :
        (proc[p].pc \in {"idle", "findAdmin", "findVerification"} /\ proc'[p] # proc[p])
        => verifications' = verifications /\ nextVerificationId' = nextVerificationId

C26_FailureCameFromALookup ==
    \A p \in Procs :
        (proc'[p].pc = "done" /\ proc[p].pc # "done" /\ proc'[p].result # None
            /\ proc'[p].result.message \in {"Admin not found", "Invalid or expired passcode"})
        => /\ proc[p].pc \in {"findAdmin", "findVerification"}
           /\ nextVerificationId' = proc[p].startId

C26_WrongGuessLeavesStore ==
    [][C26_LookupsWriteNothing /\ C26_FailureCameFromALookup]_vars

(* A wrong passcode was rejected while the admin has an unused, unexpired
   record, which is still there *)
C26_WrongGuessValidRecordKept ==
    \E p \in Procs :
        /\ Returned(p) /\ proc[p].result = InvalidOrExpired
        /\ \E r \in verifications : /\ r.adminId \in AdminIdOf(proc[p].email)
                                    /\ ~r.used
                                    /\ r.expiresAt > now
                                    /\ r.passcode # proc[p].passcode

====
